---- MODULE Spec2Model ----
(***************************************************************************)
(* Barrier-synchronised training-iteration protocol of lightLDA.           *)
(*                                                                         *)
(*   src/src/lightlda.cpp   LightLDA::Train       the orchestrator loop    *)
(*   src/src/trainer.cpp    Trainer::TrainIteration, Trainer::Evaluate     *)
(*   src/src/alias_table.h  AliasTable            the shared alias table   *)
(*                                                                         *)
(* One trainer thread per id in 0..trainer_num-1 runs TrainIteration on    *)
(* every data block (iteration, block, slice) the orchestrator pushes, in  *)
(* push order.  The threads share one AliasTable and one Barrier.          *)
(***************************************************************************)
EXTENDS Integers, Sequences, FiniteSets

(* ---------------------------------------------------------------------- *)
(* Bounds of the model.                                                    *)
(* ---------------------------------------------------------------------- *)
MaxThreads == 2        \* Config::num_local_workers ranges over 1..MaxThreads
MaxIterations == 2     \* Config::num_iterations ranges over 1..MaxIterations
MaxBlocks == 2         \* Config::num_blocks ranges over 1..MaxBlocks
MaxSlices == 2         \* num_slice of a block ranges over 1..MaxSlices
MaxPushes == 4         \* data blocks pushed in a whole run
MaxWords == 2          \* words of a slice range over 0..MaxWords
MaxDocs == 2           \* documents of a block range over 0..MaxDocs
MaxVocab == 3          \* Config::num_vocabs ranges over 1..MaxVocab
MaxTopics == 10        \* Config::num_topics ranges over 1..MaxTopics in ConfigTable
MaxTf == 2             \* meta.tf(word) ranges over 0..MaxTf and LargeTf
kLoadFactor == 2       \* load factor of the sparse rows

Threads == 0 .. MaxThreads - 1
NoIndex == << -1, -1 >>

VARIABLES
  \* ---- configuration, fixed by Init (Config::*, Meta, DataBlock) ----
  trainer_num,       \* Config::num_local_workers, TrainerCount()
  num_iterations,    \* Config::num_iterations
  num_blocks,        \* Config::num_blocks
  num_slice,         \* meta.local_vocab(block).num_slice()
  num_words,         \* local_vocab.end(slice) - local_vocab.begin(slice)
  num_docs,          \* data.Size()
  asymmetric_alpha,  \* Config::asymmetric_alpha >= 0
  overflow,          \* TRUE: some word's nonzero-topic count exceeds its capacity
  word_init,         \* Config::word_init
  \* ---- LightLDA::Train ----
  main_pc,           \* "push" | "wait" | "done"
  i,                 \* iteration loop variable
  block,             \* block loop variable
  slice,             \* slice loop variable
  queue,             \* data blocks pushed so far, in push order
  \* ---- Trainer threads ----
  pc,                \* position of each thread inside TrainIteration/Evaluate
  done,              \* number of data blocks each thread has finished
  pword,             \* word loop variable (offset from local_vocab.begin(slice))
  doc_id,            \* document loop variable
  \* ---- Barrier ----
  waiting,           \* threads blocked inside barrier_->Wait()
  \* ---- AliasTable ----
  table_index,       \* table_index_: (block, slice) of the installed index
  pool,              \* "allocated" | "released"
  halted,            \* the process has terminated abnormally
  \* ---- call history ----
  inits,             \* inits[q][t]: Init calls of thread t in data block q
  builds,            \* builds[q][w][t]: Build(word w) calls of thread t in q
  denseBuilds,       \* denseBuilds[q][t]: Build(-1) calls of thread t in q
  asymBuilds,        \* asymBuilds[q][t]: InitAsymmetricAlpha calls of t in q
  failedBuilds,      \* data blocks in which some Build(word) reported failure
  clears,            \* clears[q][t]: Clear calls of thread t in data block q
  usedAfterClear,    \* a Build/Propose/InitAsymmetricAlpha ran on a released pool
  \* ---- Trainer::doc_llh_, Trainer::word_llh_ (static, shared) ----
  doc_llh_,
  word_llh_,
  \* ---- documents ----
  topics,            \* topics[b][d][k]: doc->Topic(k-1) of document d of block b
  \* ---- more call history ----
  logs,              \* logs[q][kind]: the values logged, kind doc | word | norm
  samples,           \* samples[q][d][t]: SampleOneDoc calls of t on document d in q
  buildWaits,        \* buildWaits[q][t]: Wait() calls of t in lines 58-84 for q
  evalWaits,         \* evalWaits[q][t]: Wait() calls of t inside Evaluate for q
  fatals,            \* Log::Fatal calls of the topic check: << q, d >>
  \* ---- LightLDA::ConfigTable ----
  num_topics,        \* Config::num_topics
  tf,                \* tf[word + 1]: meta.tf(word)
  local_tf,          \* local_tf[word + 1]: meta.local_tf(word)
  word,              \* word loop variable of ConfigTable
  rows,              \* rows[word + 1]: what ConfigTable set for the word's rows
  \* ---- LightLDA::Initialize ----
  corpus,            \* corpus[d]: the words of document d, doc->Word(k-1)
  warm_start,        \* Config::warm_start
  init_block,        \* block loop variable of Initialize
  init_doc,          \* document loop variable (i) of Initialize
  word_topic,        \* server table kWordTopicTable: word_topic[w][k]
  summary            \* server table kSummaryRow, row 0: summary[k]

config == << trainer_num, num_iterations, num_blocks, num_slice, num_words,
             num_docs, asymmetric_alpha, overflow, word_init >>
mainv  == << main_pc, i, block, slice, queue >>
thrv   == << pc, done, pword, doc_id >>
barv   == << waiting >>
aliasv == << table_index, pool, halted >>
histv  == << inits, builds, denseBuilds, asymBuilds, failedBuilds, clears,
             usedAfterClear >>
evalv  == << doc_llh_, word_llh_ >>
datav  == << topics >>
hist2  == << logs, samples, buildWaits, evalWaits, fatals >>
ctv    == << num_topics, tf, local_tf, word, rows >>
initv  == << corpus, warm_start, init_block, init_doc, word_topic, summary >>
vars   == << config, mainv, thrv, barv, aliasv, histv, evalv, datav, hist2, ctv,
             initv >>

Workers == { t \in Threads : t < trainer_num }
Pushes  == 1 .. MaxPushes
Words   == 0 .. MaxWords - 1
Docs    == 0 .. MaxDocs - 1
Blocks  == 0 .. MaxBlocks - 1

(* The data block a thread is working on: the next one it has not finished. *)
Cur(t)       == done[t] + 1
HasWork(t)   == done[t] < Len(queue)
IterOf(q)    == queue[q].iteration
BlockOf(q)   == queue[q].block
SliceOf(q)   == queue[q].slice
IndexOf(q)   == << BlockOf(q), SliceOf(q) >>    \* meta_->alias_index(block, slice)

Bump(f, q, t) == [f EXCEPT ![q][t] = @ + 1]
Sum(f) == LET RECURSIVE S(_)
              S(T) == IF T = {} THEN 0
                      ELSE LET x == CHOOSE y \in T : TRUE IN f[x] + S(T \ {x})
          IN S(DOMAIN f)

(* ---------------------------------------------------------------------- *)
(* Conditions and loop arithmetic of Trainer::TrainIteration.              *)
(* ---------------------------------------------------------------------- *)
InstallsIndex(id) == id = 0                       \* if (id == 0) alias_->Init
FirstWord_NoOffset(id) == 0                         \* every thread starts at begin
FirstWord(id) == id                               \* local_vocab.begin(slice) + id
NextWord_Skips(p, n) == p + n + 1                   \* stride one too long
NextWord(p, n) == p + n                           \* pword += trainer_num
BuildsDense_All(id) == TRUE                         \* guard on id dropped
BuildsDense(id) == id = 0                         \* if (id == 0) Build(-1, ..)
BuildsAsym(id, asym) == id = 0 /\ asym            \* id == 0 && asymmetric_alpha >= 0
AfterInit_NoBarrier == "build"                      \* first barrier dropped
AfterInit == "wait1"                              \* barrier_->Wait() after Init
AfterShared_NoBarrier == "sample"                   \* second barrier dropped
AfterShared == "wait2"                            \* barrier_->Wait() before sampling
FirstDoc_NoOffset(id) == 0
FirstDoc(id) == id                                \* doc_id = id
NextDoc(d, n) == d + n                            \* doc_id += trainer_num
Evaluates_EveryIteration(iter) == iter % 1 = 0
Evaluates(iter) == iter % 2 = 0                   \* if (iter % 2 == 0) Evaluate
Clears(iter, n) == iter = n - 1                   \* iter == num_iterations - 1

(* Conditions and sums of Trainer::Evaluate.                               *)
\* Eval::ComputeOneDocLLH / Eval::ComputeOneWordLLH: one value per document
\* and per word, as integers.
DocLLH(d) == d + 1
WordLLH(w) == w + 1
\* for (doc_id = TrainerId(); doc_id < data.Size() && slice == 0; doc_id += T)
RECURSIVE DocLoop(_, _, _, _)
DocLoop(d, n, s, T) ==
  IF d < n /\ s = 0 THEN DocLLH(d) + DocLoop(d + T, n, s, T) ELSE 0
ThreadDoc(id, n, s, T) == DocLoop(id, n, s, T)
\* for (word = begin + TrainerId(); word < end && block == 0; word += T)
RECURSIVE WordLoop(_, _, _, _)
WordLoop(w, n, b, T) ==
  IF w < n /\ b = 0 THEN WordLLH(w) + WordLoop(w + T, n, b, T) ELSE 0
ThreadWord(id, n, b, T) == WordLoop(id, n, b, T)
MergeLLH(acc, part) == acc + part                 \* doc_llh_ += thread_doc
ResetLLH_Keeps(v) == v                              \* reset dropped
ResetLLH(v) == 0                                  \* doc_llh_ = 0
\* Log::Info of a likelihood value while working on data block q.
Logged(l, kind, q, value) == [l EXCEPT ![q][kind] = Append(@, value)]
AfterEvalDoc(s) == IF s = 0 THEN "wait_doc" ELSE "eval_word"
AfterWordLLH(id, b) == IF id = 0 /\ b = 0 THEN "normalize" ELSE "wait3"
AfterEvalWord(b) == IF b = 0 THEN "wait_word" ELSE "wait3"

(* ---------------------------------------------------------------------- *)
(* AliasTable: the result of Build(word), and what counts as a use.        *)
(* ---------------------------------------------------------------------- *)
\* The words of document d (doc->Word(k-1)); the same in every block.
DocWords(d) == corpus[d]

\* LightLDA::Initialize: max_word_id % Config::num_topics.
RECURSIVE MaxWordId(_, _)
MaxWordId(ws, k) ==
  IF k > Len(ws) THEN 0
  ELSE LET m == MaxWordId(ws, k + 1) IN IF ws[k] > m THEN ws[k] ELSE m
DocTopicId(ws, K) == MaxWordId(ws, 1) % K

\* The topic check of the document loop: which slices it runs in, and whether
\* a document passes it.
ChecksTopics_AnySlice(iter, s) == iter = 0
ChecksTopics(iter, s) == iter = 0 /\ s = 0
TopicsPass(wi, ws, ts) ==
  IF wi THEN \A k \in 1 .. Len(ws) : ts[k] = ws[k]
        ELSE \A k \in 2 .. Len(ws) : ts[k] = ts[1]

\* What SampleOneDoc leaves in a token is not determined here.
Unknown == -1
Resampled(ts) == [k \in 1 .. Len(ts) |-> Unknown]
Known(ts) == \A k \in 1 .. Len(ts) : ts[k] # Unknown
CheckOutcomes(wi, ws, ts) == IF Known(ts) THEN {TopicsPass(wi, ws, ts)} ELSE BOOLEAN

BuildResult(w) == IF overflow /\ w = 0 THEN 1 ELSE 0
UsesPool(t) ==
  \/ pc[t] = "build" /\ (pword[t] < num_words \/ BuildsDense(t))
  \/ pc[t] = "asym"
  \/ pc[t] = "sample" /\ doc_id[t] < num_docs

(* ---------------------------------------------------------------------- *)
(* Initial state: Run() up to the call of Train().                         *)
(* ---------------------------------------------------------------------- *)
Zero2 == [q \in Pushes |-> [t \in Threads |-> 0]]

\* Configuration and corpus layout, then the state all runs start from.
Configured ==
  /\ trainer_num \in 1 .. MaxThreads
  /\ num_iterations \in 1 .. MaxIterations
  /\ num_blocks \in 1 .. MaxBlocks
  /\ num_slice \in 1 .. MaxSlices
  /\ num_iterations * num_blocks * num_slice <= MaxPushes
  /\ num_words \in 0 .. MaxWords
  /\ num_docs \in 0 .. MaxDocs
  /\ asymmetric_alpha \in BOOLEAN

Started ==
  /\ main_pc = "push" /\ i = 0 /\ block = 0 /\ slice = 0 /\ queue = << >>
  /\ pc = [t \in Threads |-> "idle"]
  /\ done = [t \in Threads |-> 0]
  /\ pword = [t \in Threads |-> 0]
  /\ doc_id = [t \in Threads |-> 0]
  /\ waiting = {}
  /\ table_index = NoIndex
  /\ pool = "allocated"
  /\ halted = FALSE
  /\ inits = Zero2 /\ denseBuilds = Zero2 /\ asymBuilds = Zero2 /\ clears = Zero2
  /\ builds = [q \in Pushes |-> [w \in Words |-> [t \in Threads |-> 0]]]
  /\ failedBuilds = {}
  /\ usedAfterClear = FALSE
  /\ doc_llh_ = 0 /\ word_llh_ = 0
  /\ logs = [q \in Pushes |-> [kind \in {"doc", "word", "norm"} |-> << >>]]
  /\ samples = [q \in Pushes |-> [d \in Docs |-> [t \in Threads |-> 0]]]
  /\ buildWaits = Zero2 /\ evalWaits = Zero2
  /\ fatals = {}

\* ConfigTable() has run; what it set is not read by Train().
TablesConfigured ==
  num_topics = 2 /\ tf = << >> /\ local_tf = << >> /\ word = 0 /\ rows = << >>

\* Initialize() has run on a corpus of two-word documents; the server tables
\* it filled are not read by Train().
Initialized ==
  /\ corpus = [d \in Docs |-> << d % 2, 1 >>]
  /\ init_block = num_blocks /\ init_doc = 0
  /\ word_topic = << >> /\ summary = << >>

\* Initialize() ran with warm_start off: every token of a document has the
\* topic max_word_id % num_topics.
ColdTopics(d) == [k \in 1 .. Len(DocWords(d)) |-> DocTopicId(DocWords(d), num_topics)]
ColdStart ==
  /\ word_init = FALSE /\ warm_start = FALSE
  /\ topics = [b \in Blocks |-> [d \in Docs |-> ColdTopics(d)]]

\* Initialize() ran with warm_start on: the topics are the ones the input
\* holds.  They pass the check of TrainIteration, except in at most one
\* document.
PassingTopics(d) == IF word_init THEN DocWords(d) ELSE ColdTopics(d)
AnyTopics(d) == [1 .. Len(DocWords(d)) -> 0 .. num_topics - 1]
WarmStart ==
  /\ word_init \in BOOLEAN /\ warm_start = TRUE
  /\ \/ topics = [b \in Blocks |-> [d \in Docs |-> PassingTopics(d)]]
     \/ \E b0 \in Blocks, d0 \in Docs : \E ts \in AnyTopics(d0) :
          /\ b0 < num_blocks /\ d0 < num_docs
          /\ topics = [b \in Blocks |-> [d \in Docs |->
                         IF b = b0 /\ d = d0 THEN ts ELSE PassingTopics(d)]]

Init ==
  /\ Configured /\ overflow = FALSE /\ Started /\ TablesConfigured
  /\ Initialized /\ ColdStart

\* The metadata is inconsistent: the first word of a slice has more nonzero
\* topics than its reserved capacity.
InitOverflow ==
  /\ Configured /\ num_words > 0 /\ overflow = TRUE /\ Started
  /\ TablesConfigured /\ Initialized /\ ColdStart

\* Runs on input that was initialised elsewhere (warm_start).
InitWarm ==
  /\ Configured /\ num_words = 1 /\ asymmetric_alpha /\ overflow = FALSE
  /\ Started /\ TablesConfigured /\ Initialized /\ WarmStart

(* ---------------------------------------------------------------------- *)
(* LightLDA::Train.                                                        *)
(* ---------------------------------------------------------------------- *)
\* Multiverso::PushDataBlock(lda_block) inside the slice loop.  Train() runs
\* after InitMultiverso() has returned.
PushDataBlock ==
  /\ ~halted /\ main_pc = "push" /\ init_block = num_blocks
  /\ queue' = Append(queue, [iteration |-> i, block |-> block, slice |-> slice])
  /\ slice' = slice + 1
  /\ main_pc' = IF slice + 1 < num_slice THEN "push" ELSE "wait"
  /\ UNCHANGED << i, block, config, thrv, barv, aliasv, histv,
                  evalv, datav, hist2, ctv, initv >>

\* Multiverso::Wait() returns when every trainer has processed every data
\* block pushed so far.
AllProcessed_NoWait == TRUE
AllProcessed == \A t \in Workers : done[t] = Len(queue)

\* Multiverso::Wait() after the slice loop, then the block and iteration loops.
MultiversoWait ==
  /\ ~halted /\ main_pc = "wait"
  /\ AllProcessed
  /\ slice' = 0
  /\ IF block + 1 < num_blocks
       THEN block' = block + 1 /\ i' = i /\ main_pc' = "push"
       ELSE /\ block' = 0 /\ i' = i + 1
            /\ main_pc' = IF i + 1 < num_iterations THEN "push" ELSE "done"
  /\ UNCHANGED << queue, config, thrv, barv, aliasv, histv,
                  evalv, datav, hist2, ctv, initv >>

(* ---------------------------------------------------------------------- *)
(* Barrier::Wait(): blocks until trainer_num threads have arrived, then     *)
(* releases them all and returns true to exactly one of them.              *)
(* ---------------------------------------------------------------------- *)
BuildWaitPcs == {"wait1", "wait2"}                       \* TrainIteration
EvalWaitPcs == {"wait_doc", "wait_word", "wait3"}        \* Evaluate
WaitPcs == BuildWaitPcs \cup EvalWaitPcs

Released(u, won) ==
  CASE pc[u] = "wait1"     -> "build"
    [] pc[u] = "wait2"     -> "sample"
    [] pc[u] = "wait_doc"  -> IF won THEN "log_doc" ELSE "eval_word"
    [] pc[u] = "wait_word" -> IF won THEN "log_word"
                              ELSE AfterWordLLH(u, BlockOf(Cur(u)))
    [] pc[u] = "wait3"     -> "clear"

BarrierWait(t) ==
  /\ ~halted /\ t \in Workers /\ pc[t] \in WaitPcs /\ t \notin waiting
  /\ LET arrived == waiting \cup {t} IN
       IF Cardinality(arrived) = trainer_num
         THEN /\ \E w \in arrived :
                   pc' = [u \in Threads |->
                            IF u \in arrived THEN Released(u, u = w) ELSE pc[u]]
              /\ waiting' = {}
         ELSE /\ waiting' = arrived
              /\ pc' = pc
  /\ IF pc[t] \in BuildWaitPcs
       THEN buildWaits' = Bump(buildWaits, Cur(t), t) /\ evalWaits' = evalWaits
       ELSE evalWaits' = Bump(evalWaits, Cur(t), t) /\ buildWaits' = buildWaits
  /\ UNCHANGED << done, pword, doc_id, config, mainv, aliasv, histv,
                  evalv, datav, logs, samples, fatals, ctv, initv >>

(* ---------------------------------------------------------------------- *)
(* Trainer::TrainIteration.                                                *)
(* ---------------------------------------------------------------------- *)
\* Entry of TrainIteration for the next pushed data block, up to
\* if (id == 0) alias_->Init(meta_->alias_index(block, slice)).
InitIndex(t) ==
  /\ ~halted /\ t \in Workers /\ pc[t] = "idle" /\ HasWork(t)
  /\ IF InstallsIndex(t)
       THEN /\ table_index' = IndexOf(Cur(t))
            /\ inits' = Bump(inits, Cur(t), t)
       ELSE UNCHANGED << table_index, inits >>
  /\ pc' = [pc EXCEPT ![t] = AfterInit]
  /\ pword' = [pword EXCEPT ![t] = FirstWord(t)]
  /\ doc_id' = [doc_id EXCEPT ![t] = FirstDoc(t)]
  /\ UNCHANGED << done, config, mainv, barv, pool, halted, builds, denseBuilds,
                  asymBuilds, failedBuilds, clears, usedAfterClear,
                  evalv, datav, hist2, ctv, initv >>

\* One turn of the word loop: alias_->Build(*pword, model_); the result is dropped.
BuildWord(t) ==
  /\ ~halted /\ t \in Workers /\ pc[t] = "build" /\ pword[t] < num_words
  /\ builds' = [builds EXCEPT ![Cur(t)][pword[t]][t] = @ + 1]
  /\ failedBuilds' = IF BuildResult(pword[t]) # 0
                       THEN failedBuilds \cup {Cur(t)} ELSE failedBuilds
  /\ usedAfterClear' = (usedAfterClear \/ pool = "released")
  /\ pword' = [pword EXCEPT ![t] = NextWord(pword[t], trainer_num)]
  /\ UNCHANGED << pc, done, doc_id, config, mainv, barv, aliasv, inits,
                  denseBuilds, asymBuilds, clears,
                  evalv, datav, hist2, ctv, initv >>

\* End of the word loop, then if (id == 0) alias_->Build(-1, model_).
BuildShared(t) ==
  /\ ~halted /\ t \in Workers /\ pc[t] = "build" /\ pword[t] >= num_words
  /\ IF BuildsDense(t)
       THEN /\ denseBuilds' = Bump(denseBuilds, Cur(t), t)
            /\ usedAfterClear' = (usedAfterClear \/ pool = "released")
       ELSE UNCHANGED << denseBuilds, usedAfterClear >>
  /\ pc' = [pc EXCEPT ![t] = IF BuildsAsym(t, asymmetric_alpha)
                               THEN "asym" ELSE AfterShared]
  /\ UNCHANGED << done, pword, doc_id, config, mainv, barv, aliasv, inits,
                  builds, asymBuilds, failedBuilds, clears,
                  evalv, datav, hist2, ctv, initv >>

\* alias_->InitAsymmetricAlpha(model_).
InitAsymmetricAlpha(t) ==
  /\ ~halted /\ t \in Workers /\ pc[t] = "asym"
  /\ asymBuilds' = Bump(asymBuilds, Cur(t), t)
  /\ usedAfterClear' = (usedAfterClear \/ pool = "released")
  /\ pc' = [pc EXCEPT ![t] = AfterShared]
  /\ UNCHANGED << done, pword, doc_id, config, mainv, barv, aliasv, inits,
                  builds, denseBuilds, failedBuilds, clears,
                  evalv, datav, hist2, ctv, initv >>

\* One turn of the document loop: sampler_->SampleOneDoc(doc, .., alias_).
SampleOneDoc(t) ==
  /\ ~halted /\ t \in Workers /\ pc[t] = "sample" /\ doc_id[t] < num_docs
  /\ LET q == Cur(t)
         b == BlockOf(q)
         d == doc_id[t]
     IN \E pass \in CheckOutcomes(word_init, DocWords(d), topics[b][d]) :
          IF ChecksTopics(IterOf(q), SliceOf(q)) /\ ~pass
            THEN \* Log::Fatal
                 /\ halted' = TRUE
                 /\ fatals' = fatals \cup {<< q, d >>}
                 /\ UNCHANGED << doc_id, usedAfterClear, samples, topics >>
            ELSE \* sampler_->SampleOneDoc(doc, slice, lastword, model_, alias_)
                 /\ usedAfterClear' = (usedAfterClear \/ pool = "released")
                 /\ samples' = [samples EXCEPT ![q][d][t] = @ + 1]
                 /\ topics' = [topics EXCEPT ![b][d] = Resampled(@)]
                 /\ doc_id' = [doc_id EXCEPT ![t] = NextDoc(doc_id[t], trainer_num)]
                 /\ UNCHANGED << halted, fatals >>
  /\ UNCHANGED << pc, done, pword, config, mainv, barv, table_index, pool,
                  inits, builds, denseBuilds, asymBuilds, failedBuilds, clears,
                  evalv, logs, buildWaits, evalWaits, ctv, initv >>

\* End of the document loop, then if (iter % 2 == 0) Evaluate(lda_data_block).
EndSampling(t) ==
  /\ ~halted /\ t \in Workers /\ pc[t] = "sample" /\ doc_id[t] >= num_docs
  /\ pc' = [pc EXCEPT ![t] = IF Evaluates(IterOf(Cur(t))) THEN "eval_doc"
                               ELSE "clear"]
  /\ UNCHANGED << done, pword, doc_id, config, mainv, barv, aliasv, histv,
                  evalv, datav, hist2, ctv, initv >>

\* if (iter == Config::num_iterations - 1) alias_->Clear(); then return.
ClearAlias(t) ==
  /\ ~halted /\ t \in Workers /\ pc[t] = "clear"
  /\ IF Clears(IterOf(Cur(t)), num_iterations)
       THEN /\ pool' = "released"
            /\ clears' = Bump(clears, Cur(t), t)
       ELSE UNCHANGED << pool, clears >>
  /\ pc' = [pc EXCEPT ![t] = "idle"]
  /\ done' = [done EXCEPT ![t] = @ + 1]
  /\ UNCHANGED << pword, doc_id, config, mainv, barv, table_index, halted,
                  inits, builds, denseBuilds, asymBuilds, failedBuilds,
                  usedAfterClear,
                  evalv, datav, hist2, ctv, initv >>

\* A Build/Propose/InitAsymmetricAlpha on the released pool may also end the
\* process instead of returning.
Crash(t) ==
  /\ ~halted /\ t \in Workers /\ pool = "released" /\ UsesPool(t)
  /\ halted' = TRUE
  /\ usedAfterClear' = TRUE
  /\ UNCHANGED << config, mainv, thrv, barv, table_index, pool, inits, builds,
                  denseBuilds, asymBuilds, failedBuilds, clears,
                  evalv, datav, hist2, ctv, initv >>

(* ---------------------------------------------------------------------- *)
(* Trainer::Evaluate.                                                      *)
(* ---------------------------------------------------------------------- *)
\* 1. document likelihood of the thread's documents, merged under mutex_.
EvalDoc(t) ==
  /\ ~halted /\ t \in Workers /\ pc[t] = "eval_doc"
  /\ doc_llh_' = MergeLLH(doc_llh_,
                         ThreadDoc(t, num_docs, SliceOf(Cur(t)), trainer_num))
  /\ pc' = [pc EXCEPT ![t] = AfterEvalDoc(SliceOf(Cur(t)))]
  /\ UNCHANGED << done, pword, doc_id, config, mainv, barv, aliasv, histv,
                  word_llh_, datav, hist2, ctv, initv >>

\* The thread Wait() returned true to logs doc_llh_ and resets it.
LogDoc(t) ==
  /\ ~halted /\ t \in Workers /\ pc[t] = "log_doc"
  /\ logs' = Logged(logs, "doc", Cur(t), doc_llh_)
  /\ doc_llh_' = ResetLLH(doc_llh_)
  /\ pc' = [pc EXCEPT ![t] = "eval_word"]
  /\ UNCHANGED << done, pword, doc_id, config, mainv, barv, aliasv, histv,
                  word_llh_, datav, samples, buildWaits, evalWaits, fatals, ctv, initv >>

\* 2. word likelihood of the thread's words, merged under mutex_.
EvalWord(t) ==
  /\ ~halted /\ t \in Workers /\ pc[t] = "eval_word"
  /\ word_llh_' = MergeLLH(word_llh_,
                          ThreadWord(t, num_words, BlockOf(Cur(t)), trainer_num))
  /\ pc' = [pc EXCEPT ![t] = AfterEvalWord(BlockOf(Cur(t)))]
  /\ UNCHANGED << done, pword, doc_id, config, mainv, barv, aliasv, histv,
                  doc_llh_, datav, hist2, ctv, initv >>

\* The thread Wait() returned true to logs word_llh_ and resets it.
LogWord(t) ==
  /\ ~halted /\ t \in Workers /\ pc[t] = "log_word"
  /\ logs' = Logged(logs, "word", Cur(t), word_llh_)
  /\ word_llh_' = ResetLLH(word_llh_)
  /\ pc' = [pc EXCEPT ![t] = AfterWordLLH(t, BlockOf(Cur(t)))]
  /\ UNCHANGED << done, pword, doc_id, config, mainv, barv, aliasv, histv,
                  doc_llh_, datav, samples, buildWaits, evalWaits, fatals, ctv, initv >>

\* 3. thread 0 logs the normalized likelihood when block == 0.
Normalize(t) ==
  /\ ~halted /\ t \in Workers /\ pc[t] = "normalize"
  /\ logs' = Logged(logs, "norm", Cur(t), t)
  /\ pc' = [pc EXCEPT ![t] = "wait3"]
  /\ UNCHANGED << done, pword, doc_id, config, mainv, barv, aliasv, histv,
                  evalv, datav, samples, buildWaits, evalWaits, fatals, ctv, initv >>

Next ==
  \/ PushDataBlock
  \/ MultiversoWait
  \/ \E t \in Threads :
       \/ InitIndex(t) \/ BarrierWait(t) \/ BuildWord(t) \/ BuildShared(t)
       \/ InitAsymmetricAlpha(t) \/ SampleOneDoc(t) \/ EndSampling(t)
       \/ EvalDoc(t) \/ LogDoc(t) \/ EvalWord(t) \/ LogWord(t) \/ Normalize(t)
       \/ ClearAlias(t) \/ Crash(t)

Spec == Init /\ [][Next]_vars
SpecOverflow == InitOverflow /\ [][Next]_vars
SpecWarm == InitWarm /\ [][Next]_vars

\* The orchestrator and every trainer thread run on their own OS thread and
\* keep being scheduled; a failure of the process is never forced.
TrainerStep(t) ==
  \/ InitIndex(t) \/ BarrierWait(t) \/ BuildWord(t) \/ BuildShared(t)
  \/ InitAsymmetricAlpha(t) \/ SampleOneDoc(t) \/ EndSampling(t)
  \/ EvalDoc(t) \/ LogDoc(t) \/ EvalWord(t) \/ LogWord(t) \/ Normalize(t)
  \/ ClearAlias(t)
Fairness ==
  /\ WF_vars(PushDataBlock)
  /\ WF_vars(MultiversoWait)
  /\ \A t \in Threads : WF_vars(TrainerStep(t))
SpecFair == Init /\ [][Next]_vars /\ Fairness

(* ---------------------------------------------------------------------- *)
(* LightLDA::ConfigTable, before training starts.                          *)
(* ---------------------------------------------------------------------- *)
LargeTf == {5, 50}
TfValues == 0 .. MaxTf \cup LargeTf

\* if (meta.tf(word) * kLoadFactor > Config::num_topics)
IsDense_AtBoundary(f, K) == f * kLoadFactor >= K
IsDense(f, K) == f * kLoadFactor > K
\* the capacity passed with sparse_format
SparseCapacity_Tf(f) == f
SparseCapacity(f) == f * kLoadFactor
\* Set{Server,Cache}Row(kWordTopicTable, word, format, capacity)
RowOf(f, K) ==
  IF IsDense(f, K) THEN [format |-> "dense", capacity |-> K]
  ELSE [format |-> "sparse", capacity |-> SparseCapacity(f)]
\* SetAggregatorRow(kWordTopicTable, word, format, capacity)
AggregatorRowOf(f, K) ==
  IF IsDense(2 * f, K) THEN [format |-> "dense", capacity |-> K]
  ELSE [format |-> "sparse", capacity |-> SparseCapacity(2 * f)]
\* A row ConfigTable does not touch stays as CreateTable declared the table.
Declared(K) == [format |-> "declared", capacity |-> K]

InitConfigTable ==
  /\ trainer_num = 1 /\ num_iterations = 1 /\ num_blocks = 1 /\ num_slice = 1
  /\ num_words = 0 /\ num_docs = 0 /\ asymmetric_alpha = FALSE
  /\ overflow = FALSE /\ Started
  /\ num_topics \in 1 .. MaxTopics
  /\ \E n \in 1 .. MaxVocab :
       /\ tf \in [1 .. n -> TfValues]
       /\ local_tf \in [1 .. n -> TfValues]
       /\ \A w \in 1 .. n : local_tf[w] \in {0, tf[w]}
  /\ word = 0 /\ rows = << >>
  /\ Initialized /\ ColdStart

\* One pass of the loop over the vocabulary.
ConfigTableRow ==
  /\ word < Len(tf)
  /\ LET f == tf[word + 1]
         lf == local_tf[word + 1]
     IN rows' = Append(rows,
          [server |-> IF f > 0 THEN RowOf(f, num_topics) ELSE Declared(num_topics),
           cache |-> IF f > 0 THEN RowOf(f, num_topics) ELSE Declared(num_topics),
           aggregator |-> IF lf > 0 THEN AggregatorRowOf(lf, num_topics)
                          ELSE Declared(num_topics)])
  /\ word' = word + 1
  /\ UNCHANGED << num_topics, tf, local_tf, config, mainv, thrv, barv, aliasv,
                  histv, evalv, datav, hist2, initv >>

NextConfigTable == ConfigTableRow
SpecConfigTable == InitConfigTable /\ [][NextConfigTable]_vars

(* ---------------------------------------------------------------------- *)
(* LightLDA::Initialize, after ConfigTable and before Train.               *)
(* ---------------------------------------------------------------------- *)
\* The documents the corpora are made of, and the topic counts.
SampleDocs ==
  { << >>, << 0 >>, << 2 >>, << 0, 0 >>, << 1, 2 >>, << 2, 1 >>,
    << 1, 0, 1 >>, << 2, 2, 0 >> }
TopicCounts == 1 .. 3
Vocab == 0 .. MaxVocab - 1
TopicIds == 0 .. num_topics - 1

\* if (!Config::warm_start) doc->SetTopic(word_idx, doc_topic_id);
SetsTopic_Never(warm) == FALSE
SetsTopic(warm) == ~warm
\* Multiverso::AddToServer(table, row, col, 1) on one row
AddToRow_Twice(r, col) == [r EXCEPT ![col] = @ + 2]
AddToRow(r, col) == [r EXCEPT ![col] = @ + 1]

\* The loop over the tokens of one document, from token k on.
RECURSIVE InitTokens(_, _, _, _, _)
InitTokens(st, ws, doc_topic_id, warm, k) ==
  IF k > Len(ws) THEN st
  ELSE LET ts == IF SetsTopic(warm) THEN [st.topic EXCEPT ![k] = doc_topic_id]
                 ELSE st.topic
       IN InitTokens([topic |-> ts,
                      word_topic |-> [st.word_topic EXCEPT
                                        ![ws[k]] = AddToRow(@, ts[k])],
                      summary |-> AddToRow(st.summary, ts[k])],
                     ws, doc_topic_id, warm, k + 1)

\* The topics the input holds before Initialize runs.
LoadedTopics(b, d) == [k \in 1 .. Len(DocWords(d)) |-> (b + d + k) % num_topics]

\* The state Initialize starts from: empty server tables, loaded documents.
Loaded ==
  /\ Started
  /\ tf = << >> /\ local_tf = << >> /\ word = 0 /\ rows = << >>
  /\ topics = [b \in Blocks |-> [d \in Docs |-> LoadedTopics(b, d)]]
  /\ init_block = 0 /\ init_doc = 0
  /\ word_topic = [w \in Vocab |-> [k \in TopicIds |-> 0]]
  /\ summary = [k \in TopicIds |-> 0]

InitInitialize ==
  /\ trainer_num = 1 /\ num_iterations = 1 /\ num_slice = 1 /\ num_words = 0
  /\ asymmetric_alpha = FALSE /\ overflow = FALSE /\ word_init = FALSE
  /\ num_blocks \in 1 .. MaxBlocks
  /\ num_docs \in 0 .. MaxDocs
  /\ num_topics \in TopicCounts
  /\ warm_start \in BOOLEAN
  /\ corpus \in [Docs -> SampleDocs]
  /\ \A d \in Docs : d >= num_docs => corpus[d] = << >>
  /\ Loaded

\* A cold start followed by training with two trainer threads.
InitCold ==
  /\ trainer_num = 2 /\ num_iterations = 1 /\ num_slice = 2 /\ num_words = 1
  /\ asymmetric_alpha = TRUE /\ overflow = FALSE /\ word_init = FALSE
  /\ num_blocks \in 1 .. MaxBlocks
  /\ num_iterations * num_blocks * num_slice <= MaxPushes
  /\ num_docs \in 0 .. MaxDocs
  /\ num_topics \in TopicCounts \ {1}
  /\ warm_start = FALSE
  /\ \E d0 \in Docs : \E ws \in SampleDocs :
       /\ d0 < num_docs \/ (d0 = 0 /\ ws = << >>)
       /\ corpus = [d \in Docs |-> IF d = d0 THEN ws ELSE << d % 2, 1 >>]
  /\ Loaded

\* One document of the block: the loop over its tokens.
InitializeDoc ==
  /\ init_block < num_blocks /\ init_doc < num_docs
  /\ LET ws == DocWords(init_doc)
         st == InitTokens([topic |-> topics[init_block][init_doc],
                           word_topic |-> word_topic, summary |-> summary],
                          ws, DocTopicId(ws, num_topics), warm_start, 1)
     IN /\ topics' = [topics EXCEPT ![init_block][init_doc] = st.topic]
        /\ word_topic' = st.word_topic
        /\ summary' = st.summary
  /\ init_doc' = init_doc + 1
  /\ UNCHANGED << corpus, warm_start, init_block, config, mainv, thrv, barv,
                  aliasv, histv, evalv, hist2, ctv >>

\* End of the block: Multiverso::Flush(), EndDataAccess(), next block.
InitializeFlush ==
  /\ init_block < num_blocks /\ init_doc >= num_docs
  /\ init_block' = init_block + 1
  /\ init_doc' = 0
  /\ UNCHANGED << corpus, warm_start, word_topic, summary, config, mainv, thrv,
                  barv, aliasv, histv, evalv, datav, hist2, ctv >>

NextInitialize == InitializeDoc \/ InitializeFlush
SpecInitialize == InitInitialize /\ [][NextInitialize]_vars

\* InitMultiverso() and then Train().
NextRun == InitializeDoc \/ InitializeFlush \/ Next
SpecCold == InitCold /\ [][NextRun]_vars

TypeOK ==
  /\ pc \in [Threads -> {"idle", "build", "asym", "sample", "eval_doc", "log_doc",
                         "eval_word", "log_word", "normalize", "clear"} \cup WaitPcs]
  /\ waiting \subseteq Workers
  /\ pool \in {"allocated", "released"}

(* ====================================================================== *)
(* Properties.                                                             *)
(* ====================================================================== *)
\* Thread t has a document of its current data block still to hand to
\* SampleOneDoc: it is inside the document loop.
Sampling(t) == t \in Workers /\ pc[t] = "sample" /\ doc_id[t] < num_docs
\* Thread t is about to call Build (for a word or for -1) or InitAsymmetricAlpha.
AboutToBuild(t) ==
  /\ t \in Workers
  /\ \/ pc[t] = "build" /\ (pword[t] < num_words \/ BuildsDense(t))
     \/ pc[t] = "asym"
\* Thread t has left the word loop and the shared-slot build of data block q.
PastBuild(t, q) ==
  \/ done[t] >= q
  \/ Cur(t) = q /\ pc[t] \notin {"idle", "wait1", "build", "asym"}
Pushed == 1 .. Len(queue)
SliceWords == 0 .. num_words - 1
TotalPushes == num_iterations * num_blocks * num_slice

\* C1: no thread samples a document of a slice before thread 0 has finished
\* Build(-1) and, when asymmetric alpha is configured, InitAsymmetricAlpha
\* for that slice.
C1_SharedSlotsBeforeSampling ==
  \A t \in Workers :
    Sampling(t) =>
      /\ denseBuilds[Cur(t)][0] >= 1
      /\ asymmetric_alpha => asymBuilds[Cur(t)][0] >= 1

C1_Witness ==
  \E t \in Workers :
    /\ t # 0 /\ Sampling(t) /\ asymmetric_alpha /\ Cur(t) >= 2
    /\ denseBuilds[Cur(t)][0] = 1 /\ asymBuilds[Cur(t)][0] = 1

\* C2: every word of the slice's word range has had Build(word) completed by
\* some thread before any thread samples a document of that slice.
C2_WordSlotsBeforeSampling ==
  \A t \in Workers :
    Sampling(t) =>
      \A w \in SliceWords : \E u \in Workers : builds[Cur(t)][w][u] >= 1

C2_Witness ==
  \E t \in Workers :
    /\ Sampling(t) /\ trainer_num >= 2 /\ num_words >= 2 /\ Cur(t) >= 2
    /\ \A w \in SliceWords : \E u \in Workers : builds[Cur(t)][w][u] = 1

\* C3: stale reads are unreachable: while a thread is in the sampling phase of
\* a slice, the installed index is that slice's, thread 0 has not installed the
\* index of a later slice, and no other thread is in Build or
\* InitAsymmetricAlpha; in evaluated and non-evaluated iterations alike.
C3_NoStaleRead ==
  \A t \in Workers :
    Sampling(t) =>
      /\ table_index = IndexOf(Cur(t))
      /\ \A q \in Pushed : q > Cur(t) => inits[q][0] = 0
      /\ \A u \in Workers \ {t} : pc[u] \notin {"build", "asym"}

\* C4: the word positions thread id visits (start at begin+id, step T) are
\* pairwise disjoint across threads and cover the slice's range: once every
\* thread has left the word loop, each word of the range was built exactly once
\* and by the thread with position mod T == id; no other position is built.
C4_PartitionComplete ==
  \A q \in Pushed :
    /\ \A w \in Words : \A t \in Threads :
         builds[q][w][t] > 0 =>
           /\ w \in SliceWords /\ t \in Workers
           /\ w % trainer_num = t
           /\ builds[q][w][t] = 1
    /\ (\A t \in Workers : PastBuild(t, q)) =>
         \A w \in SliceWords : builds[q][w][w % trainer_num] = 1

C4_Witness ==
  \E q \in Pushed :
    /\ \A t \in Workers : PastBuild(t, q)
    /\ trainer_num >= 2 /\ num_words > 0 /\ num_words < trainer_num
    /\ builds[q][0][0] = 1

\* C5: in every slice the dense smoothing slot is rebuilt exactly once and only
\* by thread 0; the asymmetric-prior slot exactly once by thread 0 when
\* asymmetric alpha is configured and never otherwise.
C5_SharedSlotsOncePerSlice ==
  \A q \in Pushed :
    /\ \A t \in Threads \ {0} : denseBuilds[q][t] = 0 /\ asymBuilds[q][t] = 0
    /\ denseBuilds[q][0] <= 1
    /\ asymBuilds[q][0] <= (IF asymmetric_alpha THEN 1 ELSE 0)
    /\ PastBuild(0, q) =>
         /\ denseBuilds[q][0] = 1
         /\ asymBuilds[q][0] = (IF asymmetric_alpha THEN 1 ELSE 0)

C5_Witness ==
  /\ trainer_num >= 2 /\ asymmetric_alpha /\ done[1] >= 2
  /\ \A q \in 1 .. 2 : denseBuilds[q][0] = 1 /\ asymBuilds[q][0] = 1

\* C6: in every slice thread 0's Init of that slice's index has completed
\* before any thread executes a Build call for that slice.
C6_InitBeforeBuild ==
  \A t \in Workers :
    AboutToBuild(t) =>
      /\ inits[Cur(t)][0] >= 1
      /\ table_index = IndexOf(Cur(t))

C6_Witness ==
  \E t \in Workers :
    /\ t # 0 /\ pc[t] = "build" /\ pword[t] < num_words /\ Cur(t) >= 2
    /\ inits[Cur(t)][0] = 1

\* Thread t still has a SampleOneDoc call to make before the run ends.
SamplesLeft(t) ==
  /\ FirstDoc(t) < num_docs
  /\ ~ \/ done[t] = TotalPushes
       \/ /\ Cur(t) = TotalPushes /\ Len(queue) = TotalPushes
          /\ \/ pc[t] \in {"eval_doc", "wait_doc", "log_doc", "eval_word",
                           "wait_word", "log_word", "normalize", "wait3", "clear"}
             \/ pc[t] = "sample" /\ doc_id[t] >= num_docs

\* C7: when Clear() is executed in the final iteration every thread has
\* completed all of its SampleOneDoc calls of that iteration.
C7_ClearAfterAllSampling ==
  pool = "released" => \A t \in Workers : ~SamplesLeft(t)

ClearCalls(q) == Sum(clears[q])
TotalClears == Sum([q \in Pushes |-> ClearCalls(q)])

\* C8: Clear() is called exactly once in a whole run, by thread 0 only, and
\* only when iter == num_iterations - 1.
C8_ClearOnceByThread0 ==
  /\ \A q \in Pushed : \A t \in Threads :
       clears[q][t] > 0 => t = 0 /\ IterOf(q) = num_iterations - 1
  /\ TotalClears <= 1
  /\ main_pc = "done" => TotalClears = 1

\* C9: after a Clear() no Build, Propose, InitAsymmetricAlpha or
\* ProposeAsymmetricAlpha call occurs.
C9_NoUseAfterClear == ~usedAfterClear

\* C10: if a Build(word) of a slice reports failure the run halts and no
\* thread goes on to sample documents of that slice.
C10_BuildFailureIsFatal ==
  \A t \in Workers : \A q \in failedBuilds :
    /\ ~(Cur(t) = q /\ Sampling(t))
    /\ done[t] < q

\* Thread t has returned from TrainIteration for data block q.
Returned(t, q) == done[t] >= q
FullDoc == DocLoop(0, num_docs, 0, 1)       \* all documents of a block
FullWord == WordLoop(0, num_words, 0, 1)    \* all words of a slice
LogsOf(kind, q) == logs[q][kind]
Values(sq) == { sq[k] : k \in 1 .. Len(sq) }

\* C11: each likelihood value is logged by exactly one thread per evaluation
\* pass and is complete: the logged accumulator is the sum of the partial values
\* of all T threads for that pass only (every partial merged before the log,
\* nothing left over from an earlier pass, the reset is never lost).
C11_LoggedLikelihoodComplete ==
  \A q \in Pushed :
    /\ \A v \in Values(LogsOf("doc", q)) : v = FullDoc
    /\ \A v \in Values(LogsOf("word", q)) : v = FullWord
    /\ Len(LogsOf("doc", q)) <= 1
    /\ Len(LogsOf("word", q)) <= 1
    /\ (\A t \in Workers : Returned(t, q)) /\ Evaluates(IterOf(q)) =>
         /\ SliceOf(q) = 0 => Len(LogsOf("doc", q)) = 1
         /\ BlockOf(q) = 0 => Len(LogsOf("word", q)) = 1

C11_Witness ==
  /\ trainer_num >= 2 /\ num_docs >= 2 /\ num_words >= 2
  /\ \E q \in Pushed : q >= 2 /\ LogsOf("doc", q) = << FullDoc >>
  /\ \E q \in Pushed : q >= 2 /\ LogsOf("word", q) = << FullWord >>

\* Thread u has made all of its SampleOneDoc calls for data block q.
FinishedSampling(u, q) ==
  \/ done[u] >= q
  \/ /\ Cur(u) = q
     /\ \/ pc[u] \in {"eval_doc", "wait_doc", "log_doc", "eval_word",
                      "wait_word", "log_word", "normalize", "wait3", "clear"}
        \/ pc[u] = "sample" /\ doc_id[u] >= num_docs

\* C12: in every iteration, evaluated or not, a thread starts processing the
\* next slice only after every thread has finished sampling the current one.
C12_SliceEndsTogether ==
  \A t \in Workers :
    (pc[t] # "idle" /\ Cur(t) >= 2) =>
      \A u \in Workers : FinishedSampling(u, Cur(t) - 1)

EvalWaitsOf(q) ==
  IF Evaluates(IterOf(q))
    THEN 1 + (IF SliceOf(q) = 0 THEN 1 ELSE 0) + (IF BlockOf(q) = 0 THEN 1 ELSE 0)
    ELSE 0

FailsCheck(t) ==
  /\ ChecksTopics(IterOf(Cur(t)), SliceOf(Cur(t)))
  /\ ~TopicsPass(word_init, DocWords(doc_id[t]), topics[BlockOf(Cur(t))][doc_id[t]])

\* C14: in iteration 0, slice 0 a document whose topics violate the expected
\* invariant raises a fatal error and is not passed to SampleOneDoc; in every
\* other (iteration, slice) the check is not performed.
C14_TopicCheckHalts ==
  /\ [](\A f \in fatals :
          /\ IterOf(f[1]) = 0 /\ SliceOf(f[1]) = 0 /\ halted
          /\ ~TopicsPass(word_init, DocWords(f[2]), topics[BlockOf(f[1])][f[2]])
          /\ \A t \in Threads : samples[f[1]][f[2]][t] = 0)
  /\ [](\A t \in Workers :
          Sampling(t) /\ ChecksTopics(IterOf(Cur(t)), SliceOf(Cur(t)))
            => Known(topics[BlockOf(Cur(t))][doc_id[t]]))
  /\ [][\A t \in Workers :
          Sampling(t) =>
            /\ samples'[Cur(t)][doc_id[t]][t] > samples[Cur(t)][doc_id[t]][t]
                 => ~FailsCheck(t)
            /\ << Cur(t), doc_id[t] >> \in fatals' \ fatals => FailsCheck(t)
            /\ doc_id'[t] # doc_id[t] => ~FailsCheck(t)]_vars

C14_Witness ==
  /\ fatals # {}
  /\ \E q \in Pushed : \E d \in Docs : \E t \in Workers :
       SliceOf(q) = 1 /\ samples[q][d][t] = 1

\* The rows ConfigTable has set so far.
ConfiguredWords == { w \in 1 .. Len(rows) : tf[w] > 0 }
Min(a, b) == IF a < b THEN a ELSE b
Capacities == [w \in 1 .. Len(rows) |-> rows[w].server.capacity]
Formats == [w \in 1 .. Len(rows) |-> rows[w].server.format]
ExampleInput == tf = << 1, 5, 50 >> /\ num_topics = 10 /\ word = 3

\* C15: for every word with tf > 0 the configured row capacity is
\* min(tf * load_factor, num_topics); for tf = [1, 5, 50], num_topics = 10,
\* load_factor = 2 the capacities are 2, 10 and 10.
C15_CapacityDerivation ==
  /\ \A w \in ConfiguredWords :
       /\ rows[w].server.capacity = Min(tf[w] * kLoadFactor, num_topics)
       /\ rows[w].cache = rows[w].server
  /\ ExampleInput => Capacities = << 2, 10, 10 >>

C15_Witness ==
  /\ ExampleInput /\ Capacities = << 2, 10, 10 >>
  /\ \A w \in 1 .. 3 : rows[w].cache.capacity = Capacities[w]

\* C16: a word whose tf * load_factor equals num_topics is routed to the
\* dense representation, like every word whose product is above num_topics;
\* only words whose product is below num_topics are stored sparse.
C16_BoundaryIsDense ==
  \A w \in ConfiguredWords :
    rows[w].server.format = "sparse" <=> tf[w] * kLoadFactor < num_topics

\* C16, amended: a word whose tf * load_factor equals num_topics is stored
\* sparse with capacity num_topics; only words whose product is above
\* num_topics are routed to the dense representation.
C16_BoundaryIsSparse ==
  \A w \in ConfiguredWords :
    /\ rows[w].server.format = "dense" <=> tf[w] * kLoadFactor > num_topics
    /\ rows[w].server.format = "sparse" <=> tf[w] * kLoadFactor <= num_topics
    /\ tf[w] * kLoadFactor = num_topics =>
         rows[w].server = [format |-> "sparse", capacity |-> num_topics]
    /\ rows[w].cache = rows[w].server

C16_Witness ==
  /\ ExampleInput /\ Formats = << "sparse", "sparse", "dense" >>
  /\ rows[2].server.capacity = num_topics

BlockDocs == 0 .. num_docs - 1
Owner(d) == d % trainer_num

\* C17: in every slice each document index in [0, N) is sampled exactly once,
\* by the thread with doc_id mod T == id; no document is sampled by two
\* threads or skipped, for any T >= 1 and any N (N < T and N = 0 included).
C17_DocumentPartition ==
  \A q \in Pushed :
    /\ \A d \in Docs : \A t \in Threads :
         /\ samples[q][d][t] <= 1
         /\ samples[q][d][t] = 1 => d \in BlockDocs /\ t = Owner(d)
    /\ \A d \in BlockDocs :
         FinishedSampling(Owner(d), q) => samples[q][d][Owner(d)] = 1

C17_Witness ==
  /\ trainer_num = 2 /\ num_docs = 2
  /\ \E q \in Pushed :
       /\ q >= 2 /\ \A t \in Workers : FinishedSampling(t, q)
       /\ samples[q][0][0] = 1 /\ samples[q][1][1] = 1

NoLogs(q) == \A kind \in {"doc", "word", "norm"} : LogsOf(kind, q) = << >>
EvenIter(q) == IterOf(q) % 2 = 0

Key(q) == << IterOf(q), BlockOf(q), SliceOf(q) >>
LexLess(a, b) ==
  \/ a[1] < b[1]
  \/ a[1] = b[1] /\ a[2] < b[2]
  \/ a[1] = b[1] /\ a[2] = b[2] /\ a[3] < b[3]
\* The slices are pushed in (iteration, block, slice) order, none left out.
PushedInOrder ==
  /\ \A q \in Pushed : q > 1 => LexLess(Key(q - 1), Key(q))
  /\ \A q \in Pushed :
       /\ IterOf(q) \in 0 .. num_iterations - 1
       /\ BlockOf(q) \in 0 .. num_blocks - 1
       /\ SliceOf(q) \in 0 .. num_slice - 1
       /\ q = (IterOf(q) * num_blocks + BlockOf(q)) * num_slice + SliceOf(q) + 1
SameBlock(p, q) == IterOf(p) = IterOf(q) /\ BlockOf(p) = BlockOf(q)
HasStarted(t, q) == done[t] >= q \/ (Cur(t) = q /\ pc[t] # "idle")

\* C19: the orchestrator hands out the slices one at a time in (iteration,
\* block, slice) order and does not hand out slice s+1 before all trainers
\* have completed slice s; no thread starts a slice of block b+1 (or of the
\* next iteration) before all threads have finished every slice of block b.
C19_OneSliceAtATime ==
  /\ PushedInOrder
  /\ \A q \in Pushed : q > 1 => \A u \in Workers : done[u] >= q - 1
  /\ \A q \in Pushed : \A p \in 1 .. q - 1 :
       (~SameBlock(p, q) /\ \E t \in Workers : HasStarted(t, q)) =>
         \A u \in Workers : done[u] >= p

\* C19, amended: the slices are pushed in (iteration, block, slice) order; the
\* slices of one block are all pushed without waiting, and the orchestrator
\* waits for the trainers only after the last slice of a block.
C19_OneBlockAtATime ==
  /\ PushedInOrder
  /\ \A q \in Pushed : \A p \in 1 .. q - 1 :
       ~SameBlock(p, q) => \A u \in Workers : done[u] >= p
  /\ \A q \in Pushed : \A p \in 1 .. q - 1 :
       (~SameBlock(p, q) /\ \E t \in Workers : HasStarted(t, q)) =>
         \A u \in Workers : done[u] >= p
  /\ main_pc = "done" => Len(queue) = TotalPushes /\ AllProcessed

C19_Witness ==
  /\ trainer_num = 2 /\ num_slice = 2 /\ Len(queue) = 4
  /\ BlockOf(3) = 1 /\ BlockOf(2) = 0
  /\ \E t \in Workers : Cur(t) = 3 /\ pc[t] # "idle"
  /\ \E u \in Workers : done[u] = 2 /\ pc[u] = "idle"

\* All threads that went through data block q made the same barrier waits.
EqualWaits ==
  \A q \in Pushed : \A t, u \in Workers :
    Returned(t, q) /\ Returned(u, q) =>
      buildWaits[q][t] = buildWaits[q][u] /\ evalWaits[q][t] = evalWaits[q][u]
RunComplete == main_pc = "done" /\ Len(queue) = TotalPushes /\ AllProcessed

Initialised(b, d) ==
  /\ b < num_blocks /\ d < num_docs
  /\ b < init_block \/ (b = init_block /\ d < init_doc)
\* The largest word id of document d.
LargestWord(d) ==
  IF DocWords(d) = << >> THEN 0
  ELSE CHOOSE w \in Values(DocWords(d)) : \A v \in Values(DocWords(d)) : v <= w

Contributed ==
  UNION { { << x[1], x[2], k >> : k \in 1 .. Len(DocWords(x[2])) } :
          x \in { y \in Blocks \X Docs : Initialised(y[1], y[2]) } }
WordAt(x) == DocWords(x[2])[x[3]]
TopicAt(x) == topics[x[1]][x[2]][x[3]]
CorpusTokens == num_blocks * Sum([d \in 0 .. num_docs - 1 |-> Len(DocWords(d))])
InitializeDone == init_block = num_blocks

\* C22: after Initialize, each token of each document of each block has added
\* 1 to the word-topic cell (its word, its topic) and 1 to the summary row at
\* its topic; for every topic k the summary count equals the sum over the
\* words of the word-topic counts, and the summary row total equals the number
\* of tokens of the corpus.
C22_CountConservation ==
  /\ \A w \in Vocab : \A k \in TopicIds :
       word_topic[w][k] =
         Cardinality({ x \in Contributed : WordAt(x) = w /\ TopicAt(x) = k })
  /\ \A k \in TopicIds :
       /\ summary[k] = Cardinality({ x \in Contributed : TopicAt(x) = k })
       /\ summary[k] = Sum([w \in Vocab |-> word_topic[w][k]])
  /\ InitializeDone => Sum(summary) = CorpusTokens

C22_Witness ==
  /\ InitializeDone /\ warm_start /\ num_blocks = 2 /\ num_topics = 3
  /\ corpus[0] = << 1, 0, 1 >> /\ corpus[1] = << 2, 2, 0 >>
  /\ Sum(summary) = 12
  /\ \E w \in Vocab : \E k \in TopicIds : word_topic[w][k] >= 2

====
